---- MODULE Spec2Model ----
(***************************************************************************)
(* A model of apollo-http: the Url value type, the HeaderCollection, and   *)
(* the Message / Request / Response objects with their withX mutators.     *)
(*                                                                         *)
(* Representation.                                                         *)
(*  - A JavaScript string is a sequence of ASCII character codes, so that  *)
(*    toLowerCase, split, join and the percent-encoding are computed       *)
(*    character by character.                                              *)
(*  - A JavaScript value that may be undefined, null, a boolean, a number  *)
(*    or a string is a tagged record (Undefined, Null, Bool, Num, Str).    *)
(*  - Objects live in heaps (sequences); a reference is an index.  Two     *)
(*    references are the same object iff the indices are equal.            *)
(*  - Request.js reads the message's collection, protocol version and body *)
(*    through this.headers, this.protocolVersion, this.body and            *)
(*    getHeaderLine()/getHeaders(); they denote the HeaderCollection       *)
(*    handed to the Message constructor, and Message's headerLine() and    *)
(*    headers accessors.                                                   *)
(***************************************************************************)
EXTENDS Integers, Sequences, FiniteSets, TLC

VARIABLES
    urls,   \* heap of Url objects
    hcs,    \* heap of HeaderCollection objects (each a Map, in insertion order)
    msgs,   \* heap of Message / Request / Response objects
    streams, \* heap of StringStream objects
    op      \* the last call made: its receiver, arguments and result

vars == <<urls, hcs, msgs, streams, op>>

\* ------------------------------------------------------------------ bounds
MaxMsgs == 2
MaxUrls == 2
MaxStrLen == 3      \* longest string given to the encoders
MaxPathLen == 4     \* longest path of a Url that is printed

\* ------------------------------------------------------------ JS values
Undefined == [t |-> "undefined", s |-> <<>>, n |-> 0]
Null == [t |-> "null", s |-> <<>>, n |-> 0]
Str(s) == [t |-> "string", s |-> s, n |-> 0]
Num(n) == [t |-> "number", s |-> <<>>, n |-> n]
Bool(b) == [t |-> "boolean", s |-> <<>>, n |-> IF b THEN 1 ELSE 0]

\* JavaScript truthiness: what `v && ...`, `v || ...`, `!v` and `if (v)` test.
Truthy(v) ==
    CASE v.t = "string" -> v.s # <<>>
      [] v.t = "number" -> v.n # 0
      [] v.t = "boolean" -> v.n = 1
      [] OTHER -> FALSE

\* a || b
OrElse(a, b) == IF Truthy(a) THEN a ELSE b

\* ---------------------------------------------------------------- strings
\* String.prototype.toLowerCase on ASCII: "A".."Z" (65..90) map to "a".."z".
toLowerCase(s) == [i \in 1..Len(s) |-> IF s[i] \in 65..90 THEN s[i] + 32 ELSE s[i]]

\* Array.prototype.join(sep) on an array of strings.
RECURSIVE join(_, _)
join(list, sep) ==
    IF list = <<>> THEN <<>>
    ELSE IF Len(list) = 1 THEN list[1]
    ELSE list[1] \o sep \o join(Tail(list), sep)

\* String.prototype.split(c) for a one-character separator c.
RECURSIVE split(_, _)
split(s, c) ==
    IF \A i \in 1..Len(s) : s[i] # c THEN <<s>>
    ELSE LET k == CHOOSE i \in 1..Len(s) : s[i] = c /\ \A j \in 1..(i - 1) : s[j] # c
         IN  <<SubSeq(s, 1, k - 1)>> \o split(SubSeq(s, k + 1, Len(s)), c)

\* Some string literals.
sHost == <<72, 111, 115, 116>>        \* "Host"
shost == <<104, 111, 115, 116>>       \* "host"
sXTest == <<88, 45, 84>>              \* "X-T"
sComma == <<44>>                      \* ","
sSlash == <<47>>                      \* "/"
sStar == <<42>>                       \* "*"
sGET == <<71, 69, 84>>                \* "GET"
sPOST == <<80, 79, 83, 84>>           \* "POST"
s11 == <<49, 46, 49>>                 \* "1.1"
s20 == <<50, 46, 48>>                 \* "2.0"
sExampleCom == <<101, 46, 99>>        \* "e.c"
sOtherCom == <<111, 46, 99>>          \* "o.c"
sOtherComUpper == <<79, 46, 67>>      \* "O.C"
sPath == <<47, 112>>                  \* "/p"
sKeyValue == <<107, 61, 118>>         \* "k=v"

\* ------------------------------------------------------ HeaderCollection
\* A HeaderCollection holds a Map from header name to an array of values; the
\* Map is the sequence of its entries [name, values] in insertion order.

MapHas(h, key) == \E i \in DOMAIN h : h[i].name = key

MapGet(h, key) == h[CHOOSE i \in DOMAIN h : h[i].name = key].values

\* Map.prototype.set: an existing key keeps its position, a new key goes last.
MapSet(h, key, values) ==
    IF MapHas(h, key)
    THEN [i \in DOMAIN h |-> IF h[i].name = key THEN [name |-> key, values |-> values] ELSE h[i]]
    ELSE Append(h, [name |-> key, values |-> values])

\* Map.prototype.delete
MapDelete(h, key) == SelectSeq(h, LAMBDA e : e.name # key)

\* new HeaderCollection(entries): new Map(entries), entry by entry.
RECURSIVE HeaderCollection(_)
HeaderCollection(entries) ==
    IF entries = <<>> THEN <<>>
    ELSE LET n == Len(entries)
         IN  MapSet(HeaderCollection(SubSeq(entries, 1, n - 1)), entries[n].name, entries[n].values)

\* all(): the entries reduced into an object {...headers, [name]: values}.  An
\* object keeps its (non-numeric) keys in insertion order, and Object.entries
\* lists them in that order, so the object is the sequence of its entries.
RECURSIVE all(_)
all(h) ==
    IF h = <<>> THEN <<>>
    ELSE LET n == Len(h)
         IN  MapSet(all(SubSeq(h, 1, n - 1)), h[n].name, h[n].values)

\* headerKey(name): the first stored key equal to name ignoring case, or name.
headerKey(h, name) ==
    LET lowerCaseName == toLowerCase(name)
        found == {i \in DOMAIN h : toLowerCase(h[i].name) = lowerCaseName}
        first == CHOOSE i \in found : \A j \in found : i <= j
    IN  IF found # {} /\ h[first].name # <<>> THEN h[first].name ELSE name

has(h, name) == MapHas(h, headerKey(h, name))

get(h, name) == IF MapHas(h, headerKey(h, name)) THEN MapGet(h, headerKey(h, name)) ELSE <<>>

\* A header value argument is a string or an array of strings:
\* [arr |-> is it an array, items |-> the string(s)].
HStr(s) == [arr |-> FALSE, items |-> <<s>>]
HArr(list) == [arr |-> TRUE, items |-> list]

\* Array.isArray(value) ? value : [value]
asArray(value) == value.items

\* set(name, value)
set(h, name, value) == MapSet(h, headerKey(h, name), asArray(value))

\* add(name, value): (get(key) || []).concat(value); concat appends a string
\* as one element and an array element by element.
add(h, name, value) ==
    LET key == headerKey(h, name)
        old == IF MapHas(h, key) THEN MapGet(h, key) ELSE <<>>
    IN  MapSet(h, key, old \o value.items)

\* remove(name)
remove(h, name) == MapDelete(h, headerKey(h, name))

\* --------------------------------------------------------- percent-encoding
\* encodeURIComponent leaves A-Z a-z 0-9 - _ . ! ~ * ' ( ) alone.
IsUnreserved(c) ==
    \/ c \in 65..90
    \/ c \in 97..122
    \/ c \in 48..57
    \/ c \in {45, 95, 46, 33, 126, 42, 39, 40, 41}

HexDigit(v) == IF v < 10 THEN 48 + v ELSE 55 + v

HexVal(c) ==
    IF c \in 48..57 THEN c - 48
    ELSE IF c \in 65..70 THEN c - 55
    ELSE IF c \in 97..102 THEN c - 87
    ELSE -1

\* encodeURIComponent on an ASCII string: every other character becomes %XX
\* with upper-case hexadecimal digits.
RECURSIVE encodeURIComponent(_)
encodeURIComponent(s) ==
    IF s = <<>> THEN <<>>
    ELSE (IF IsUnreserved(s[1]) THEN <<s[1]>>
          ELSE <<37, HexDigit(s[1] \div 16), HexDigit(s[1] % 16)>>)
         \o encodeURIComponent(Tail(s))

\* decodeURIComponent: [ok |-> FALSE] is the URIError it throws for a "%" not
\* followed by two hexadecimal digits and for a byte >= 0x80 that starts no
\* valid UTF-8 sequence (the strings used here hold no multi-byte sequence).
RECURSIVE decodeURIComponent(_)
decodeURIComponent(s) ==
    IF s = <<>> THEN [ok |-> TRUE, s |-> <<>>]
    ELSE IF s[1] # 37
    THEN LET r == decodeURIComponent(Tail(s))
         IN  [ok |-> r.ok, s |-> <<s[1]>> \o r.s]
    ELSE IF Len(s) < 3 \/ HexVal(s[2]) < 0 \/ HexVal(s[3]) < 0
    THEN [ok |-> FALSE, s |-> <<>>]
    ELSE LET b == 16 * HexVal(s[2]) + HexVal(s[3])
             r == decodeURIComponent(SubSeq(s, 4, Len(s)))
         IN  IF b >= 128 THEN [ok |-> FALSE, s |-> <<>>]
             ELSE [ok |-> r.ok, s |-> <<b>> \o r.s]

\* parts.map(decodeURIComponent).map(encodeURIComponent).join(sep)
RECURSIVE recode(_, _)
recode(parts, sep) ==
    LET d == decodeURIComponent(parts[1])
        e == encodeURIComponent(d.s)
    IN  IF ~d.ok THEN [ok |-> FALSE, s |-> <<>>]
        ELSE IF Len(parts) = 1 THEN [ok |-> TRUE, s |-> e]
        ELSE LET r == recode(Tail(parts), sep)
             IN  [ok |-> r.ok, s |-> e \o sep \o r.s]

\* An encodePath that escapes its segments without unescaping them first.
encodePathNoDecode(path) ==
    [ok |-> TRUE, s |-> join([k \in DOMAIN split(path, 47) |->
                                encodeURIComponent(split(path, 47)[k])], <<47>>)]

encodePath(path) == recode(split(path, 47), <<47>>)

\* query.split("&").map(pair => pair.split("=").map(decode).map(encode).join("=")).join("&")
RECURSIVE encodeQuery(_)
encodeQuery(query) ==
    LET pairs == split(query, 38)
        head == recode(split(pairs[1], 61), <<61>>)
    IN  IF Len(pairs) = 1 THEN head
        ELSE LET r == encodeQuery(SubSeq(query, Len(pairs[1]) + 2, Len(query)))
             IN  [ok |-> head.ok /\ r.ok, s |-> head.s \o <<38>> \o r.s]

encodeFragment(fragment) ==
    LET d == decodeURIComponent(fragment)
    IN  [ok |-> d.ok, s |-> encodeURIComponent(d.s)]

\* --------------------------------------------------------------------- Url
\* Number -> decimal string, as a template literal prints an integer.
RECURSIVE digits(_)
digits(n) == IF n < 10 THEN <<48 + n>> ELSE digits(n \div 10) \o <<48 + (n % 10)>>

numberToString(n) == IF n < 0 THEN <<45>> \o digits(-n) ELSE digits(n)

\* parseInt(port) || null, for a port that is an integer, null or undefined.
parsePort(port) == IF port.t = "number" /\ port.n # 0 THEN port ELSE Null

\* x && x.length > 0, for a string, null or undefined.
NonEmpty(x) == Truthy(x) /\ Len(x.s) > 0

\* new Url(scheme, user, password, host, port, path, query, fragment).
\* [ok |-> FALSE] is the URIError of a malformed percent-escape.
UrlConstructor(scheme, user, password, host, port, path, query, fragment) ==
    LET theUser == IF NonEmpty(user) THEN user ELSE Null
        p == IF NonEmpty(path) THEN encodePath(path.s) ELSE [ok |-> TRUE, s |-> <<>>]
        q == IF NonEmpty(query) THEN encodeQuery(query.s) ELSE [ok |-> TRUE, s |-> <<>>]
        f == IF NonEmpty(fragment) THEN encodeFragment(fragment.s) ELSE [ok |-> TRUE, s |-> <<>>]
    IN  [ok |-> p.ok /\ q.ok /\ f.ok,
         url |->
            [scheme |-> IF NonEmpty(scheme) THEN Str(toLowerCase(scheme.s)) ELSE Null,
             user |-> theUser,
             password |-> IF Truthy(theUser) THEN OrElse(password, Null) ELSE Null,
             host |-> IF NonEmpty(host) THEN Str(toLowerCase(host.s)) ELSE Null,
             port |-> parsePort(port),
             path |-> IF NonEmpty(path) THEN Str(p.s) ELSE Null,
             query |-> IF NonEmpty(query) THEN Str(q.s) ELSE Null,
             fragment |-> IF NonEmpty(fragment) THEN Str(f.s) ELSE Null]]

\* this.x || ""
getScheme(u) == OrElse(u.scheme, Str(<<>>)).s
getHost(u) == OrElse(u.host, Str(<<>>)).s
getPath(u) == OrElse(u.path, Str(<<>>)).s
getQuery(u) == OrElse(u.query, Str(<<>>)).s
getFragment(u) == OrElse(u.fragment, Str(<<>>)).s

\* An isStandardPort that does not look at the scheme.
isStandardPortAnyScheme(u, port) == port \in {Num(80), Num(443)}

isStandardPort(u, port) ==
    CASE u.scheme = Str(<<104, 116, 116, 112>>) -> port = Num(80)
      [] u.scheme = Str(<<104, 116, 116, 112, 115>>) -> port = Num(443)
      [] OTHER -> FALSE

getPort(u) == IF Truthy(u.port) /\ ~isStandardPort(u, u.port) THEN u.port ELSE Null

getUserInfo(u) ==
    IF ~Truthy(u.user) THEN <<>>
    ELSE IF Truthy(u.password) THEN u.user.s \o <<58>> \o u.password.s
    ELSE u.user.s

\* A getAuthority that prints the stored port.
getAuthorityStoredPort(u) ==
    LET host == getHost(u)
        userInfo == getUserInfo(u)
        withUser == IF Len(userInfo) > 0 THEN userInfo \o <<64>> \o host ELSE host
    IN  IF Len(host) = 0 THEN <<>>
        ELSE IF Truthy(u.port) THEN withUser \o <<58>> \o numberToString(u.port.n)
        ELSE withUser

getAuthority(u) ==
    LET host == getHost(u)
        userInfo == getUserInfo(u)
        withUser == IF Len(userInfo) > 0 THEN userInfo \o <<64>> \o host ELSE host
        port == getPort(u)
    IN  IF Len(host) = 0 THEN <<>>
        ELSE IF Truthy(port) THEN withUser \o <<58>> \o numberToString(port.n)
        ELSE withUser

\* path.replace(/^[\/]+/, "")
RECURSIVE stripLeadingSlashes(_)
stripLeadingSlashes(path) ==
    IF path # <<>> /\ path[1] = 47 THEN stripLeadingSlashes(Tail(path)) ELSE path

\* A toString that never prefixes "/" to a rootless path.
toStringNoPrefix(u) ==
    LET scheme == getScheme(u)
        authority == getAuthority(u)
        path0 == getPath(u)
        path2 == IF Len(path0) >= 2 /\ path0[2] = 47 /\ Len(authority) = 0
                 THEN <<47>> \o stripLeadingSlashes(path0) ELSE path0
        query == getQuery(u)
        fragment == getFragment(u)
    IN  (IF Len(scheme) > 0 THEN scheme \o <<58>> ELSE <<>>)
        \o (IF Len(authority) > 0 THEN <<47, 47>> \o authority ELSE <<>>)
        \o path2
        \o (IF Len(query) > 0 THEN <<63>> \o query ELSE <<>>)
        \o (IF Len(fragment) > 0 THEN <<35>> \o fragment ELSE <<>>)

toString(u) ==
    LET scheme == getScheme(u)
        authority == getAuthority(u)
        path0 == getPath(u)
        \* rootless with an authority: prefix "/"
        path1 == IF Len(path0) > 0 /\ path0[1] # 47 /\ Len(authority) > 0
                 THEN <<47>> \o path0 ELSE path0
        \* path.charAt(1) === "/" without an authority: reduce the leading slashes
        path2 == IF Len(path0) > 0 /\ Len(path1) >= 2 /\ path1[2] = 47 /\ Len(authority) = 0
                 THEN <<47>> \o stripLeadingSlashes(path1) ELSE path1
        query == getQuery(u)
        fragment == getFragment(u)
    IN  (IF Len(scheme) > 0 THEN scheme \o <<58>> ELSE <<>>)
        \o (IF Len(authority) > 0 THEN <<47, 47>> \o authority ELSE <<>>)
        \o path2
        \o (IF Len(query) > 0 THEN <<63>> \o query ELSE <<>>)
        \o (IF Len(fragment) > 0 THEN <<35>> \o fragment ELSE <<>>)

\* Everything a caller can read from a Url.
UrlView(u) ==
    [scheme |-> getScheme(u), userInfo |-> getUserInfo(u), host |-> getHost(u),
     port |-> getPort(u), path |-> getPath(u), query |-> getQuery(u),
     fragment |-> getFragment(u), authority |-> getAuthority(u), string |-> toString(u)]

\* The withX methods of Url.  Each gives [same |-> TRUE] when it returns this,
\* and otherwise the constructor's result for the new Url.
This == [same |-> TRUE, ok |-> TRUE]
Fresh(c) == [same |-> FALSE, ok |-> c.ok, url |-> c.url]
Thrown == [same |-> FALSE, ok |-> FALSE]

Url_withScheme(u, scheme) ==
    IF (Len(scheme) = 0 /\ ~Truthy(u.scheme)) \/ Str(toLowerCase(scheme)) = u.scheme
    THEN This
    ELSE Fresh(UrlConstructor(IF Len(scheme) > 0 THEN Str(toLowerCase(scheme)) ELSE Null,
                              u.user, u.password, u.host, u.port, u.path, u.query, u.fragment))

Url_withUserInfo(u, user, password) ==
    IF (Len(user) = 0 /\ ~Truthy(u.user)) \/ (Str(user) = u.user /\ password = u.password)
    THEN This
    ELSE Fresh(UrlConstructor(u.scheme,
                              IF Len(user) > 0 THEN Str(user) ELSE Null,
                              IF Len(user) > 0 THEN OrElse(password, Null) ELSE Null,
                              u.host, u.port, u.path, u.query, u.fragment))

Url_withHost(u, host) ==
    IF (Len(host) = 0 /\ ~Truthy(u.host)) \/ Str(toLowerCase(host)) = u.host
    THEN This
    ELSE Fresh(UrlConstructor(u.scheme, u.user, u.password,
                              IF Len(host) > 0 THEN Str(toLowerCase(host)) ELSE Null,
                              u.port, u.path, u.query, u.fragment))

Url_withPort(u, port) ==
    IF port = u.port
    THEN This
    ELSE Fresh(UrlConstructor(u.scheme, u.user, u.password, u.host, port,
                              u.path, u.query, u.fragment))

Url_withPath(u, path) ==
    LET encodedPath == encodePath(path)
    IN  IF ~encodedPath.ok THEN Thrown
        ELSE IF (Len(encodedPath.s) = 0 /\ ~Truthy(u.path)) \/ Str(encodedPath.s) = u.path
        THEN This
        ELSE Fresh(UrlConstructor(u.scheme, u.user, u.password, u.host, u.port,
                                  OrElse(Str(encodedPath.s), Null), u.query, u.fragment))

Url_withQuery(u, query) ==
    LET encodedQuery == encodeQuery(query)
    IN  IF ~encodedQuery.ok THEN Thrown
        ELSE IF (Len(encodedQuery.s) = 0 /\ ~Truthy(u.query)) \/ Str(encodedQuery.s) = u.query
        THEN This
        ELSE Fresh(UrlConstructor(u.scheme, u.user, u.password, u.host, u.port,
                                  u.path, OrElse(Str(encodedQuery.s), Null), u.fragment))

\* A withFragment without the test for an absent fragment.
Url_withFragmentNoAbsentTest(u, fragment) ==
    LET encodedFragment == encodeFragment(fragment)
    IN  IF ~encodedFragment.ok THEN Thrown
        ELSE IF Str(encodedFragment.s) = u.fragment
        THEN This
        ELSE Fresh(UrlConstructor(u.scheme, u.user, u.password, u.host, u.port,
                                  u.path, u.query, OrElse(Str(encodedFragment.s), Null)))

Url_withFragment(u, fragment) ==
    LET encodedFragment == encodeFragment(fragment)
    IN  IF ~encodedFragment.ok THEN Thrown
        ELSE IF (Len(encodedFragment.s) = 0 /\ ~Truthy(u.fragment))
                \/ Str(encodedFragment.s) = u.fragment
        THEN This
        ELSE Fresh(UrlConstructor(u.scheme, u.user, u.password, u.host, u.port,
                                  u.path, u.query, OrElse(Str(encodedFragment.s), Null)))

\* ------------------------------------------------------------ the last call
NoOp ==
    [name |-> "none", recv |-> 0, res |-> 0, threw |-> FALSE,
     a |-> Undefined, b |-> Undefined, hname |-> <<>>, hval |-> HStr(<<>>),
     u |-> 0, body |-> 0, flag |-> Undefined, pre |-> <<>>]

\* ------------------------------------------------------------- Url actions
\* Arguments the callers pass.
SchemeArgs == {<<>>, <<72, 84, 84, 80, 83>>}                              \* "", "HTTPS"
UserArgs == {<<>>, <<117>>}                                               \* "", "u"
PasswordArgs == {Undefined, Str(<<119>>)}                                 \* omitted, "w"
HostArgs == {<<>>, <<69, 46, 67>>}                                        \* "", "E.C"
PortArgs == {Null, Num(443), Num(70000)}
PathArgs == {sPath, <<37>>}                                               \* "/p", "%"
QueryArgs == {<<>>}
FragmentArgs == {<<>>, <<102>>}                                           \* "", "f"

\* A withX that assigns the new components to the receiver as well.
UrlStoreInPlace(heap, i, r) ==
    IF r.same \/ ~r.ok THEN heap ELSE Append([heap EXCEPT ![i] = r.url], r.url)

\* The heap after a withX call on urls[i] that produced r: `return this` and a
\* throw leave it alone, `return new Url(...)` allocates.
UrlStore(heap, i, r) == IF r.same \/ ~r.ok THEN heap ELSE Append(heap, r.url)

UrlCall(name, i, a, b, r) ==
    /\ r.same \/ ~r.ok \/ Len(urls) < MaxUrls
    /\ urls' = UrlStore(urls, i, r)
    /\ op' = [NoOp EXCEPT !.name = name, !.recv = i, !.a = a, !.b = b,
                          !.threw = ~r.same /\ ~r.ok,
                          !.res = IF r.same THEN i ELSE IF r.ok THEN Len(urls) + 1 ELSE 0]
    /\ UNCHANGED <<hcs, msgs, streams>>

withScheme ==
    \E i \in DOMAIN urls : \E scheme \in SchemeArgs \cup {getScheme(urls[i])} :
        UrlCall("withScheme", i, Str(scheme), Undefined, Url_withScheme(urls[i], scheme))

withUserInfo ==
    \E i \in DOMAIN urls, user \in UserArgs, password \in PasswordArgs :
        UrlCall("withUserInfo", i, Str(user), password, Url_withUserInfo(urls[i], user, password))

withHost ==
    \E i \in DOMAIN urls : \E host \in HostArgs \cup {getHost(urls[i])} :
        UrlCall("withHost", i, Str(host), Undefined, Url_withHost(urls[i], host))

withPort ==
    \E i \in DOMAIN urls : \E port \in PortArgs \cup {getPort(urls[i])} :
        UrlCall("withPort", i, port, Undefined, Url_withPort(urls[i], port))

withPath ==
    \E i \in DOMAIN urls : \E path \in PathArgs \cup {getPath(urls[i])} :
        UrlCall("withPath", i, Str(path), Undefined, Url_withPath(urls[i], path))

withQuery ==
    \E i \in DOMAIN urls : \E query \in QueryArgs \cup {getQuery(urls[i])} :
        UrlCall("withQuery", i, Str(query), Undefined, Url_withQuery(urls[i], query))

withFragment ==
    \E i \in DOMAIN urls : \E fragment \in FragmentArgs \cup {getFragment(urls[i])} :
        UrlCall("withFragment", i, Str(fragment), Undefined, Url_withFragment(urls[i], fragment))

\* The Urls a caller constructs (those whose constructor does not throw).
OptStr(S) == {Null} \cup {Str(s) : s \in S \ {<<>>}}

ConstructedUrls ==
    {c.url : c \in {UrlConstructor(scheme, user, password, host, Num(80),
                                   Str(<<112, 32, 113>>), Str(sKeyValue), Null) :
                        scheme \in OptStr({<<72, 116, 84, 112>>,          \* "HtTp"
                                           <<104, 116, 116, 112, 115>>})  \* "https"
                                  \ {Null},
                        user \in {Str(<<117>>)},                          \* "u"
                        password \in {Null, Str(<<119>>)},                \* none, "w"
                        host \in {Str(sOtherComUpper)}}}

UrlInit ==
    /\ urls \in {<<u>> : u \in ConstructedUrls}
    /\ hcs = <<>>
    /\ msgs = <<>>
    /\ streams = <<>>
    /\ op = NoOp

UrlNext ==
    \/ withScheme
    \/ withUserInfo
    \/ withHost
    \/ withPort
    \/ withPath
    \/ withQuery
    \/ withFragment

UrlSpec == UrlInit /\ [][UrlNext]_vars

\* C1: a Url is immutable: whatever withX call is made, on it or on a Url
\* derived from it, every getter of every existing Url (scheme, user info,
\* host, port, path, query, fragment, authority, toString) returns afterwards
\* what it returned before.
C1_UrlImmutable ==
    [][\/ urls' = urls
       \/ \A i \in DOMAIN urls : i \in DOMAIN urls' /\ UrlView(urls'[i]) = UrlView(urls[i])]_vars

\* A withX call has returned a new Url that differs from its receiver.
C1_Witness ==
    /\ op.name \in {"withScheme", "withUserInfo", "withHost", "withPort",
                    "withPath", "withQuery", "withFragment"}
    /\ op.res \in DOMAIN urls
    /\ op.res # op.recv
    /\ UrlView(urls[op.res]) # UrlView(urls[op.recv])

\* ------------------------------------------------ Message, Request, Response
\* A message object.  A field its class does not have is undefined (0 for the
\* url reference and the status code).
Msg(kind, protocolVersion, headers, body, method, url, target, statusCode, reasonPhrase) ==
    [kind |-> kind, protocolVersion |-> protocolVersion, headers |-> headers, body |-> body,
     method |-> method, url |-> url, target |-> target,
     statusCode |-> statusCode, reasonPhrase |-> reasonPhrase]

\* new Message(protocolVersion, headers, body); H is the heap of collections.
MessageConstructor(H, protocolVersion, headers, body) ==
    [hcs |-> H,
     msg |-> Msg("Message", protocolVersion, headers, body, <<>>, 0, Undefined, 0, Undefined)]

\* A constructor that takes the Host header from the URL whatever
\* shouldAddHostHeader says.
RequestConstructorIgnoringFlag(H, method, url, protocolVersion, headers, body, target, shouldAddHostHeader) ==
    LET host == getHost(urls[url])
    IN  [hcs |-> IF ~has(H[headers], sHost) /\ Len(host) > 0
                 THEN [H EXCEPT ![headers] = set(H[headers], sHost, HStr(host))]
                 ELSE H,
         msg |-> Msg("Request", protocolVersion, headers, body, method, url, target, 0, Undefined)]

\* new Request(method, url, protocolVersion, headers, body, target, shouldAddHostHeader):
\* shouldAddHostHeader defaults to true when it is undefined; the constructor
\* writes the Host header into the collection it was handed.
RequestConstructor(H, method, url, protocolVersion, headers, body, target, shouldAddHostHeader) ==
    LET flag == IF shouldAddHostHeader = Undefined THEN Bool(TRUE) ELSE shouldAddHostHeader
        host == getHost(urls[url])
    IN  [hcs |-> IF Truthy(flag) /\ ~has(H[headers], sHost) /\ Len(host) > 0
                 THEN [H EXCEPT ![headers] = set(H[headers], sHost, HStr(host))]
                 ELSE H,
         msg |-> Msg("Request", protocolVersion, headers, body, method, url, target, 0, Undefined)]

\* new Response(statusCode, protocolVersion, headers, body, reasonPhrase)
ResponseConstructor(H, statusCode, protocolVersion, headers, body, reasonPhrase) ==
    [hcs |-> H,
     msg |-> Msg("Response", protocolVersion, headers, body, <<>>, 0, Undefined,
                 statusCode, reasonPhrase)]

\* reasonPhrases[statusCode], the table of lib/ResponseStatus.js: the standard
\* phrase of a registered status code, undefined for any other number.
reasonPhrases(statusCode) ==
    CASE statusCode = 200 -> Str(<<79, 75>>)                                     \* "OK"
      [] statusCode = 404 -> Str(<<78, 111, 116, 32, 70, 111, 117, 110, 100>>)   \* "Not Found"
      [] OTHER -> Undefined

\* A reasonPhrase getter that does not look the status code up.
getReasonPhraseNoTable(m) == m.reasonPhrase

\* get reasonPhrase(): this._reasonPhrase || reasonPhrases[this.statusCode]
getReasonPhrase(m) == OrElse(m.reasonPhrase, reasonPhrases(m.statusCode))

\* createMessage(protocolVersion, headers, body), as the receiver's class
\* overrides it.  Request passes this.reasonPhrase (a property no Request has:
\* undefined) as the target and this.target as shouldAddHostHeader.
createMessage(H, m, protocolVersion, headers, body) ==
    CASE m.kind = "Request" ->
            RequestConstructor(H, m.method, m.url, protocolVersion, headers, body,
                               Undefined, m.target)
      [] m.kind = "Response" ->
            ResponseConstructor(H, m.statusCode, protocolVersion, headers, body, m.reasonPhrase)
      [] OTHER -> MessageConstructor(H, protocolVersion, headers, body)

\* The accessors of Message, read in heap H.
headers(H, m) == all(H[m.headers])
hasHeader(H, m, name) == has(H[m.headers], name)
header(H, m, name) == get(H[m.headers], name)
headerLine(H, m, name) == join(header(H, m, name), sComma)

\* A method's result: `return this`, or the new object and the heap of
\* collections as the call leaves it.
Same == [same |-> TRUE]
New(c) == [same |-> FALSE, hcs |-> c.hcs, msg |-> c.msg]

Message_withProtocolVersion(m, protocolVersion) ==
    IF protocolVersion = m.protocolVersion THEN Same
    ELSE New(createMessage(hcs, m, protocolVersion, m.headers, m.body))

\* A withHeader that sets the header in the receiver's own collection.
Message_withHeaderNoCopy(m, name, value) ==
    LET values == asArray(value)
        H1 == [hcs EXCEPT ![m.headers] = set(hcs[m.headers], name, HArr(values))]
    IN  IF join(values, sComma) = headerLine(hcs, m, name) THEN Same
        ELSE New(createMessage(H1, m, m.protocolVersion, m.headers, m.body))

Message_withHeader(m, name, value) ==
    LET values == asArray(value)
        copy == HeaderCollection(headers(hcs, m))
        H1 == Append(hcs, set(copy, name, HArr(values)))
    IN  IF join(values, sComma) = headerLine(hcs, m, name) THEN Same
        ELSE New(createMessage(H1, m, m.protocolVersion, Len(H1), m.body))

Message_withAddedHeader(m, name, value) ==
    LET copy == HeaderCollection(headers(hcs, m))
        H1 == Append(hcs, add(copy, name, value))
    IN  New(createMessage(H1, m, m.protocolVersion, Len(H1), m.body))

\* A withoutHeader that does not test whether the header is there.
Message_withoutHeaderAlwaysNew(m, name) ==
    LET copy == HeaderCollection(headers(hcs, m))
        H1 == Append(hcs, remove(copy, name))
    IN  New(createMessage(H1, m, m.protocolVersion, Len(H1), m.body))

Message_withoutHeader(m, name) ==
    LET copy == HeaderCollection(headers(hcs, m))
        H1 == Append(hcs, remove(copy, name))
    IN  IF ~hasHeader(hcs, m, name) THEN Same
        ELSE New(createMessage(H1, m, m.protocolVersion, Len(H1), m.body))

Message_withBody(m, body) ==
    IF body = m.body THEN Same
    ELSE New(createMessage(hcs, m, m.protocolVersion, m.headers, body))

Request_withMethod(m, method) ==
    IF method = m.method THEN Same
    ELSE New(RequestConstructor(hcs, method, m.url, m.protocolVersion, m.headers, m.body,
                                m.target, Undefined))

\* A withUrl that compares the new host with the old URL's host, not with the
\* Host header line.
Request_withUrlByUrlHost(m, url, preserveHost) ==
    LET preserve == IF preserveHost = Undefined THEN Bool(FALSE) ELSE preserveHost
        shouldUpdateHostHeader ==
            getHost(urls[url]) # getHost(urls[m.url]) /\ ~Truthy(preserve)
        copy == HeaderCollection(headers(hcs, m))
        H1 == Append(hcs, IF shouldUpdateHostHeader
                          THEN set(copy, sHost, HStr(getHost(urls[url])))
                          ELSE copy)
    IN  IF url = m.url /\ ~shouldUpdateHostHeader THEN Same
        ELSE New(RequestConstructor(H1, m.method, url, m.protocolVersion, Len(H1), m.body,
                                    m.target, Undefined))

\* withUrl(url, preserveHost = false)
Request_withUrl(m, url, preserveHost) ==
    LET preserve == IF preserveHost = Undefined THEN Bool(FALSE) ELSE preserveHost
        shouldUpdateHostHeader ==
            getHost(urls[url]) # headerLine(hcs, m, sHost) /\ ~Truthy(preserve)
        copy == HeaderCollection(headers(hcs, m))
        H1 == Append(hcs, IF shouldUpdateHostHeader
                          THEN set(copy, sHost, HStr(getHost(urls[url])))
                          ELSE copy)
    IN  IF url = m.url /\ ~shouldUpdateHostHeader THEN Same
        ELSE New(RequestConstructor(H1, m.method, url, m.protocolVersion, Len(H1), m.body,
                                    m.target, Undefined))

getRequestTarget(m) ==
    IF Truthy(m.target) THEN m.target.s
    ELSE LET query == getQuery(urls[m.url])
         IN  getPath(urls[m.url]) \o (IF Len(query) > 0 THEN <<63>> \o query ELSE <<>>)

Request_withRequestTarget(m, requestTarget) ==
    IF (Len(requestTarget) = 0 /\ ~Truthy(m.target)) \/ Str(requestTarget) = m.target THEN Same
    ELSE New(RequestConstructor(hcs, m.method, m.url, m.protocolVersion, m.headers, m.body,
                                Str(requestTarget), Undefined))

Response_withStatus(m, code, reasonPhrase) ==
    IF code = m.statusCode /\ reasonPhrase = m.reasonPhrase THEN Same
    ELSE New(ResponseConstructor(hcs, code, m.protocolVersion, m.headers, m.body,
                                 OrElse(reasonPhrase, m.reasonPhrase)))

\* ---------------------------------------------------------- message actions
\* Arguments the callers pass.
MethodArgs == {sPOST}
TargetArgs == {<<>>, sStar}
ProtocolArgs == {s20}
HeaderNameArgs == {sHost, sXTest}
HeaderValueArgs == {HStr(sOtherCom), HArr(<<sExampleCom, sOtherCom>>)}
BodyArgs == {2}
PreserveArgs == {Undefined, Bool(TRUE)}
StatusArgs == {200, 404}
PhraseArgs == {Undefined, Str(<<79, 75>>)}                               \* omitted, "OK"

\* Header entries a caller builds a collection from before constructing.
InitHeaders ==
    {<<>>,
     <<[name |-> shost, values |-> <<sExampleCom>>]>>}

\* What a call on msgs[i] that produced r does to the heaps.
MsgCall(f, i, r) ==
    /\ r.same \/ Len(msgs) < MaxMsgs
    /\ msgs' = IF r.same THEN msgs ELSE Append(msgs, r.msg)
    /\ hcs' = IF r.same THEN hcs ELSE r.hcs
    /\ op' = [f EXCEPT !.recv = i, !.res = IF r.same THEN i ELSE Len(msgs) + 1,
                       !.pre = headers(hcs, msgs[i])]
    /\ UNCHANGED <<urls, streams>>

\* What a constructor call that produced c, from the entries init, does.  A
\* behaviour follows one constructed message and the messages derived from it.
MsgNew(f, init, c) ==
    /\ msgs = <<>>
    /\ msgs' = Append(msgs, c.msg)
    /\ hcs' = c.hcs
    /\ op' = [f EXCEPT !.res = Len(msgs) + 1, !.pre = HeaderCollection(init)]
    /\ UNCHANGED <<urls, streams>>

NewMessage ==
    \E init \in InitHeaders :
        LET H1 == Append(hcs, HeaderCollection(init))
        IN  MsgNew([NoOp EXCEPT !.name = "new Message"], init,
                   MessageConstructor(H1, s11, Len(H1), 1))

NewRequest ==
    \E url \in DOMAIN urls, init \in InitHeaders, target \in {Undefined, Str(sStar)},
       shouldAddHostHeader \in {Undefined, Bool(FALSE)} :
        LET H1 == Append(hcs, HeaderCollection(init))
        IN  MsgNew([NoOp EXCEPT !.name = "new Request", !.u = url, !.a = target,
                                !.flag = shouldAddHostHeader], init,
                   RequestConstructor(H1, sGET, url, s11, Len(H1), 1, target,
                                      shouldAddHostHeader))

NewResponseOf(codes, phrases) ==
    \E code \in codes, init \in InitHeaders, reasonPhrase \in phrases :
        LET H1 == Append(hcs, HeaderCollection(init))
        IN  MsgNew([NoOp EXCEPT !.name = "new Response", !.a = reasonPhrase,
                                !.b = Num(code)], init,
                   ResponseConstructor(H1, code, s11, Len(H1), 1, reasonPhrase))

NewResponse == NewResponseOf(StatusArgs, PhraseArgs)

withProtocolVersion ==
    \E i \in DOMAIN msgs, protocolVersion \in ProtocolArgs :
        MsgCall([NoOp EXCEPT !.name = "withProtocolVersion", !.a = Str(protocolVersion)], i,
                Message_withProtocolVersion(msgs[i], protocolVersion))

withHeader ==
    \E i \in DOMAIN msgs, name \in HeaderNameArgs, value \in HeaderValueArgs \cup {HStr(<<>>)} :
        MsgCall([NoOp EXCEPT !.name = "withHeader", !.hname = name, !.hval = value], i,
                Message_withHeader(msgs[i], name, value))

withAddedHeader ==
    \E i \in DOMAIN msgs, name \in HeaderNameArgs, value \in HeaderValueArgs :
        MsgCall([NoOp EXCEPT !.name = "withAddedHeader", !.hname = name, !.hval = value], i,
                Message_withAddedHeader(msgs[i], name, value))

withoutHeader ==
    \E i \in DOMAIN msgs, name \in HeaderNameArgs :
        MsgCall([NoOp EXCEPT !.name = "withoutHeader", !.hname = name], i,
                Message_withoutHeader(msgs[i], name))

withBody ==
    \E i \in DOMAIN msgs, body \in BodyArgs :
        MsgCall([NoOp EXCEPT !.name = "withBody", !.body = body], i,
                Message_withBody(msgs[i], body))

withMethod ==
    \E i \in DOMAIN msgs, method \in MethodArgs :
        /\ msgs[i].kind = "Request"
        /\ MsgCall([NoOp EXCEPT !.name = "withMethod", !.a = Str(method)], i,
                   Request_withMethod(msgs[i], method))

withUrl ==
    \E i \in DOMAIN msgs, url \in DOMAIN urls, preserveHost \in PreserveArgs :
        /\ msgs[i].kind = "Request"
        /\ MsgCall([NoOp EXCEPT !.name = "withUrl", !.u = url, !.flag = preserveHost], i,
                   Request_withUrl(msgs[i], url, preserveHost))

withRequestTarget ==
    \E i \in DOMAIN msgs, requestTarget \in TargetArgs :
        /\ msgs[i].kind = "Request"
        /\ MsgCall([NoOp EXCEPT !.name = "withRequestTarget", !.a = Str(requestTarget)], i,
                   Request_withRequestTarget(msgs[i], requestTarget))

withStatusOf(codes, phrases) ==
    \E i \in DOMAIN msgs, code \in codes, reasonPhrase \in phrases :
        /\ msgs[i].kind = "Response"
        /\ MsgCall([NoOp EXCEPT !.name = "withStatus", !.a = reasonPhrase,
                                !.b = Num(code)], i,
                   Response_withStatus(msgs[i], code, reasonPhrase))

withStatus == withStatusOf(StatusArgs, PhraseArgs)

\* The Urls the requests are built on: one with no component at all, and
\* new Url("http", null, null, "E.C", null, "/p", "k=v", null).
RequestUrls ==
    <<UrlConstructor(Null, Null, Null, Null, Null, Null, Null, Null).url,
      UrlConstructor(Str(<<104, 116, 116, 112>>), Null, Null, Str(<<69, 46, 67>>), Null,
                     Str(sPath), Str(sKeyValue), Null).url>>

Init ==
    /\ urls = RequestUrls
    /\ hcs = <<>>
    /\ msgs = <<>>
    /\ streams = <<>>
    /\ op = NoOp

\* Requests and the calls on them.
Next ==
    \/ NewRequest
    \/ withProtocolVersion
    \/ withHeader
    \/ withAddedHeader
    \/ withoutHeader
    \/ withBody
    \/ withMethod
    \/ withUrl
    \/ withRequestTarget

Spec == Init /\ [][Next]_vars

\* Messages, Requests and Responses and the calls on them.
AnyNext ==
    \/ NewMessage
    \/ NewRequest
    \/ NewResponse
    \/ withProtocolVersion
    \/ withHeader
    \/ withAddedHeader
    \/ withoutHeader
    \/ withBody
    \/ withMethod
    \/ withUrl
    \/ withRequestTarget
    \/ withStatus

AnySpec == Init /\ [][AnyNext]_vars

\* Messages and Responses and the calls on them.
MsgNext ==
    \/ NewMessage
    \/ NewResponse
    \/ withProtocolVersion
    \/ withHeader
    \/ withAddedHeader
    \/ withoutHeader
    \/ withBody
    \/ withStatus

MsgSpec == Init /\ [][MsgNext]_vars

\* ------------------------------------------------------------------ claims
\* Header names the claims look up: the names the callers use and their
\* other letter cases.
HeaderProbes ==
    {sHost, shost, <<72, 79, 83, 84>>, sXTest, <<120, 45, 116>>}    \* ..., "HOST", ..., "x-t"

\* Everything a caller can read of the headers of message m in heap H.
HeaderView(H, m) ==
    [headers |-> headers(H, m),
     hasHeader |-> [n \in HeaderProbes |-> hasHeader(H, m, n)],
     header |-> [n \in HeaderProbes |-> header(H, m, n)],
     headerLine |-> [n \in HeaderProbes |-> headerLine(H, m, n)]]

\* Everything a caller can read of Request m in heap H.
RequestView(H, m) ==
    [method |-> m.method, url |-> m.url, target |-> getRequestTarget(m),
     headers |-> HeaderView(H, m)]

HeaderMutators == {"withHeader", "withAddedHeader", "withoutHeader"}

SameIgnoringCase(n1, n2) == toLowerCase(n1) = toLowerCase(n2)

\* C2: the header mutators are isolated: a withHeader, withAddedHeader or
\* withoutHeader call, on a Message or Response or on one derived from it,
\* leaves the headers observable on every existing Message and Response
\* (headers, hasHeader, header, headerLine) exactly as they were.
C2_HeadersIsolated ==
    [][op'.name \in HeaderMutators =>
          \A i \in DOMAIN msgs :
              msgs[i].kind \in {"Message", "Response"} =>
                  /\ msgs'[i] = msgs[i]
                  /\ \/ hcs'[msgs[i].headers] = hcs[msgs[i].headers]
                     \/ HeaderView(hcs', msgs'[i]) = HeaderView(hcs, msgs[i])]_vars

\* A header mutator has returned a new Message or Response whose headers
\* differ from those its receiver still has.
C2_Witness ==
    /\ op.name \in HeaderMutators
    /\ op.res \in DOMAIN msgs
    /\ op.res # op.recv
    /\ msgs[op.recv].kind \in {"Message", "Response"}
    /\ headers(hcs, msgs[op.res]) # headers(hcs, msgs[op.recv])
    /\ headers(hcs, msgs[op.recv]) = op.pre

\* C3: a Request is never changed by its own mutators: withMethod,
\* withRequestTarget and withUrl leave the receiver's method, URL, request
\* target and every observable header as they were.
C3_RequestUnchanged ==
    [][op'.name \in {"withMethod", "withRequestTarget", "withUrl"} =>
          RequestView(hcs', msgs'[op'.recv]) = RequestView(hcs, msgs[op'.recv])]_vars

\* C4: the message-level mutators carry a Request's own fields forward: the
\* Request returned by withProtocolVersion, withHeader, withAddedHeader,
\* withoutHeader or withBody has the receiver's method, URL and request target.
C4_FieldsCarried ==
    (/\ op.name \in HeaderMutators \cup {"withProtocolVersion", "withBody"}
     /\ msgs[op.recv].kind = "Request")
    => /\ msgs[op.res].kind = "Request"
       /\ msgs[op.res].method = msgs[op.recv].method
       /\ msgs[op.res].url = msgs[op.recv].url
       /\ getRequestTarget(msgs[op.res]) = getRequestTarget(msgs[op.recv])

\* C5: withoutHeader removes the header: the message m.withoutHeader(n)
\* returns has no header under any name equal to n ignoring case.
C5_HeaderRemoved ==
    op.name = "withoutHeader" =>
        \A n2 \in HeaderProbes :
            SameIgnoringCase(n2, op.hname) => ~hasHeader(hcs, msgs[op.res], n2)

\* The entries hold a header named n, ignoring case.
Holds(entries, n) == \E k \in DOMAIN entries : SameIgnoringCase(entries[k].name, n)

\* shouldAddHostHeader as the constructor takes it: true unless given falsy.
FlagOn(flag) == flag = Undefined \/ Truthy(flag)

PreHostLine == join(get(op.pre, sHost), sComma)

C8_HostCarriedOver ==
    (/\ op.name = "withUrl"
     /\ ~Truthy(op.flag)
     /\ Holds(op.pre, sHost)
     /\ getHost(urls[op.u]) = <<>>)
    => header(hcs, msgs[op.res], sHost) = get(op.pre, sHost)

\* C9: withUrl with preserveHost = true never updates the Host header: the
\* Request returned has the receiver's Host header state, absent or the same
\* values.
C9_PreserveHost ==
    (op.name = "withUrl" /\ Truthy(op.flag)) =>
        /\ hasHeader(hcs, msgs[op.res], sHost) = Holds(op.pre, sHost)
        /\ header(hcs, msgs[op.res], sHost) = get(op.pre, sHost)

\* C10: the request target defaults to origin form: getRequestTarget() is the
\* explicit target if one is set, else "/" when the URL has an empty path and
\* an empty query, else url.path followed by "?" + url.query when the query is
\* non-empty.
C10_RequestTarget ==
    \A i \in DOMAIN msgs :
        msgs[i].kind = "Request" =>
            LET path == getPath(urls[msgs[i].url])
                query == getQuery(urls[msgs[i].url])
            IN  getRequestTarget(msgs[i]) =
                    IF msgs[i].target.t = "string" /\ msgs[i].target.s # <<>>
                    THEN msgs[i].target.s
                    ELSE IF path = <<>> /\ query = <<>> THEN sSlash
                    ELSE IF query # <<>> THEN path \o <<63>> \o query
                    ELSE path

\* C15: the Url mutators for scheme, host, path, query and fragment return
\* the receiver when given its current value: withScheme(getScheme()),
\* withHost(getHost()), withPath(getPath()), withQuery(getQuery()) and
\* withFragment(getFragment()) return u itself, also with "" for an absent
\* component and with the scheme or host in another letter case.
C15_UrlNoOp ==
    /\ (op.name \in {"withScheme", "withHost"}
        /\ toLowerCase(op.a.s) =
              (IF op.name = "withScheme" THEN getScheme(urls[op.recv])
               ELSE getHost(urls[op.recv])))
       => (op.res = op.recv /\ ~op.threw)
    /\ (op.name \in {"withPath", "withQuery", "withFragment"}
        /\ op.a.s = (CASE op.name = "withPath" -> getPath(urls[op.recv])
                       [] op.name = "withQuery" -> getQuery(urls[op.recv])
                       [] OTHER -> getFragment(urls[op.recv])))
       => (op.res = op.recv /\ ~op.threw)

\* withHost was called with the receiver's host in another letter case and
\* returned the receiver.
C15_Witness ==
    /\ op.name = "withHost"
    /\ op.a.s # getHost(urls[op.recv])
    /\ toLowerCase(op.a.s) = getHost(urls[op.recv])
    /\ op.res = op.recv

\* C16: withPort with the current port is a no-op: u.withPort(u.getPort())
\* returns u itself, whatever the scheme and the stored port.
C16_PortNoOp ==
    (op.name = "withPort" /\ op.a = getPort(urls[op.recv])) => op.res = op.recv

\* C17: withUserInfo with an unchanged pair is a no-op: a call whose user is
\* u's user and whose password, given or omitted, matches u's password or the
\* absence of one returns u itself, and so does withUserInfo("") on a Url
\* without a user.
C17_UserInfoNoOp ==
    op.name = "withUserInfo" =>
        LET u == urls[op.recv]
            samePassword == \/ op.b = Undefined /\ u.password = Null
                            \/ op.b # Undefined /\ op.b = u.password
        IN  (\/ op.a = u.user /\ samePassword
             \/ u.user = Null /\ op.a = Str(<<>>))
            => op.res = op.recv

\* C18: getPort elides only standard ports: getPort() is null iff no port is
\* stored, or the stored port is 80 and the scheme "http", or the stored port
\* is 443 and the scheme "https"; otherwise it is the stored integer.
C18_GetPort ==
    \A i \in DOMAIN urls :
        LET u == urls[i]
            elided == \/ u.port = Null
                      \/ u.port = Num(80) /\ getScheme(u) = <<104, 116, 116, 112>>
                      \/ u.port = Num(443) /\ getScheme(u) = <<104, 116, 116, 112, 115>>
        IN  getPort(u) = IF elided THEN Null ELSE u.port

\* withPort(443) on an "https" Url has returned a Url that stores 443 and
\* whose getPort() is null.
C18_Witness ==
    /\ op.name = "withPort"
    /\ op.res \in DOMAIN urls
    /\ op.res # op.recv
    /\ urls[op.res].port = Num(443)
    /\ getScheme(urls[op.res]) = <<104, 116, 116, 112, 115>>
    /\ getPort(urls[op.res]) = Null

\* C19: withPort validates its argument: a call with a non-null port outside
\* 1..65535 throws, and no Url stores a port outside 1..65535.
C19_PortValidated ==
    /\ (op.name = "withPort" /\ op.a # Null /\ op.a.n \notin 1..65535) => op.threw
    /\ \A i \in DOMAIN urls : urls[i].port = Null \/ urls[i].port.n \in 1..65535

\* C20: getAuthority() is "" when the host is absent, and otherwise the host,
\* prefixed by getUserInfo() and "@" iff getUserInfo() is non-empty, and
\* followed by ":" and getPort() iff getPort() is not null.
C20_Authority ==
    \A i \in DOMAIN urls :
        LET u == urls[i]
        IN  getAuthority(u) =
                IF getHost(u) = <<>> THEN <<>>
                ELSE (IF getUserInfo(u) # <<>> THEN getUserInfo(u) \o <<64>> ELSE <<>>)
                     \o getHost(u)
                     \o (IF getPort(u) # Null
                         THEN <<58>> \o numberToString(getPort(u).n) ELSE <<>>)

\* withPort has returned a Url with user info, a host and a port that shows,
\* whose authority differs from the receiver's.
C20_Witness ==
    /\ op.name = "withPort"
    /\ op.res \in DOMAIN urls
    /\ op.res # op.recv
    /\ getUserInfo(urls[op.res]) # <<>>
    /\ getHost(urls[op.res]) # <<>>
    /\ getPort(urls[op.res]) # Null
    /\ getAuthority(urls[op.res]) # getAuthority(urls[op.recv])

\* C11: withUrl with the current URL is a no-op: r.withUrl(r.getUrl()) returns
\* r itself, whatever r's Host header and its URL's host.
C11_WithUrlSame ==
    (op.name = "withUrl" /\ ~Truthy(op.flag) /\ op.u = msgs[op.recv].url)
    => op.res = op.recv

\* C12: the message mutators return the receiver when nothing changes:
\* withProtocolVersion with m's protocol version, withBody with m's body,
\* withoutHeader of a name m does not have, withHeader with m's current value
\* list for the name, and withMethod with a Request's method return m itself.
C12_MessageNoOp ==
    LET m == msgs[op.recv]
    IN  /\ (op.name = "withProtocolVersion" /\ op.a = Str(m.protocolVersion))
           => op.res = op.recv
        /\ (op.name = "withBody" /\ op.body = m.body) => op.res = op.recv
        /\ (op.name = "withoutHeader" /\ ~Holds(op.pre, op.hname)) => op.res = op.recv
        /\ (op.name = "withHeader" /\ asArray(op.hval) = get(op.pre, op.hname))
           => op.res = op.recv
        /\ (op.name = "withMethod" /\ op.a = Str(m.method)) => op.res = op.recv

\* withHeader was called with the values the receiver already had under the
\* name and returned the receiver.
C12_Witness ==
    /\ op.name = "withHeader"
    /\ Holds(op.pre, op.hname)
    /\ asArray(op.hval) = get(op.pre, op.hname)
    /\ op.res = op.recv

\* The entries of a header list other than the one named n.
Others(entries, n) == SelectSeq(entries, LAMBDA e : ~SameIgnoringCase(e.name, n))

\* C13: withHeader installs exactly the given values: in the message
\* m.withHeader(n, v) returns, header(n) is the list form of v (a string, the
\* empty string included, or a list), hasHeader(n) is true and the other
\* headers are m's.
C13_WithHeaderInstalls ==
    op.name = "withHeader" =>
        /\ header(hcs, msgs[op.res], op.hname) = asArray(op.hval)
        /\ hasHeader(hcs, msgs[op.res], op.hname)
        /\ Others(headers(hcs, msgs[op.res]), op.hname) = Others(op.pre, op.hname)

\* C14: withAddedHeader appends and keeps the stored casing: in the message
\* m.withAddedHeader(n, v) returns, header(n) is m's header(n) followed by the
\* given value(s), the header is stored under the name m used for it (under n
\* if m had none), and the other headers are m's.
C14_WithAddedHeaderAppends ==
    op.name = "withAddedHeader" =>
        LET got == headers(hcs, msgs[op.res])
            key == IF Holds(op.pre, op.hname)
                   THEN (CHOOSE k \in DOMAIN op.pre :
                            SameIgnoringCase(op.pre[k].name, op.hname))
                   ELSE 0
            stored == IF key = 0 THEN op.hname ELSE op.pre[key].name
        IN  /\ header(hcs, msgs[op.res], op.hname)
                 = get(op.pre, op.hname) \o asArray(op.hval)
            /\ \E k \in DOMAIN got : got[k].name = stored
            /\ Others(got, op.hname) = Others(op.pre, op.hname)

\* ------------------------------------------------- printing a Url's path
\* All strings over an alphabet up to a length.
StringsUpTo(alphabet, n) == UNION {[1..k -> alphabet] : k \in 0..n}

\* The Urls that are printed: with and without a scheme and an authority,
\* and every path over "a" and "/" up to MaxPathLen characters.
PrintedUrls ==
    {UrlConstructor(scheme, Null, Null, host, Null, Str(path), Null, Null).url :
        scheme \in {Null, Str(<<104, 116, 116, 112>>)},
        host \in {Null, Str(sExampleCom)},
        path \in StringsUpTo({97, 47}, MaxPathLen)}

PrintInit ==
    /\ urls \in {<<u>> : u \in PrintedUrls}
    /\ hcs = <<>>
    /\ msgs = <<>>
    /\ streams = <<>>
    /\ op = NoOp

\* url.toString()
toStringCall ==
    \E i \in DOMAIN urls :
        /\ op.name = "none"
        /\ op' = [NoOp EXCEPT !.name = "toString", !.recv = i, !.res = i,
                              !.a = Str(toString(urls[i]))]
        /\ UNCHANGED <<urls, hcs, msgs, streams>>

PrintNext == toStringCall

PrintSpec == PrintInit /\ [][PrintNext]_vars

\* The path as toString() printed it: what stands between the scheme and
\* authority and the query and fragment.
PrintedPath ==
    LET u == urls[op.recv]
        before == (IF getScheme(u) # <<>> THEN Len(getScheme(u)) + 1 ELSE 0)
                  + (IF getAuthority(u) # <<>> THEN Len(getAuthority(u)) + 2 ELSE 0)
        after == (IF getQuery(u) # <<>> THEN Len(getQuery(u)) + 1 ELSE 0)
                 + (IF getFragment(u) # <<>> THEN Len(getFragment(u)) + 1 ELSE 0)
    IN  SubSeq(op.a.s, before + 1, Len(op.a.s) - after)

\* C21: toString leaves a rootless path alone when there is no authority: a
\* non-empty path that does not start with "/" is printed verbatim, with no
\* leading slash added, whatever the length of its first segment.
C21_RootlessVerbatim ==
    (/\ op.name = "toString"
     /\ getAuthority(urls[op.recv]) = <<>>
     /\ getPath(urls[op.recv]) # <<>>
     /\ getPath(urls[op.recv])[1] # 47)
    => PrintedPath = getPath(urls[op.recv])

\* C29: toString never prints an ambiguous path: with an authority a
\* non-empty path is printed starting with "/" (a rootless path gets exactly
\* one "/" in front, an absolute path is printed as it is); without an
\* authority the printed path never starts with "//" (leading slashes are
\* reduced to one).
C29_PathPosition ==
    (op.name = "toString" /\ getPath(urls[op.recv]) # <<>>) =>
        LET path == getPath(urls[op.recv])
        IN  IF getAuthority(urls[op.recv]) # <<>>
            THEN PrintedPath = IF path[1] = 47 THEN path ELSE <<47>> \o path
            ELSE /\ ~(Len(PrintedPath) >= 2 /\ PrintedPath[1] = 47 /\ PrintedPath[2] = 47)
                 /\ (Len(path) >= 2 /\ path[1] = 47 /\ path[2] = 47)
                    => PrintedPath = <<47>> \o stripLeadingSlashes(path)

\* A rootless path was printed behind an authority, with one "/" in front.
C29_Witness ==
    /\ op.name = "toString"
    /\ getAuthority(urls[op.recv]) # <<>>
    /\ getPath(urls[op.recv]) = <<97, 47, 97>>
    /\ PrintedPath = <<47, 97, 47, 97>>

\* ----------------------------------------------------- percent-encoding
\* The strings given to the encoders: over "%", "2", "0", "F", "/", " ",
\* "=" and "&", up to MaxStrLen characters.
EncodedInputs == StringsUpTo({37, 50, 48, 70, 47, 32, 61, 38}, MaxStrLen)

EncodeInit ==
    /\ urls = <<>>
    /\ hcs = <<>>
    /\ msgs = <<>>
    /\ streams = <<>>
    /\ op \in {[NoOp EXCEPT !.name = "input", !.a = Str(s)] : s \in EncodedInputs}

\* What an encoder call on the input records: the result, or the URIError.
Encoded(name, r) ==
    /\ op.name = "input"
    /\ op' = [op EXCEPT !.name = name, !.threw = ~r.ok,
                        !.b = IF r.ok THEN Str(r.s) ELSE Undefined]
    /\ UNCHANGED <<urls, hcs, msgs, streams>>

encodePathCall == Encoded("encodePath", encodePath(op.a.s))
encodeQueryCall == Encoded("encodeQuery", encodeQuery(op.a.s))
encodeFragmentCall == Encoded("encodeFragment", encodeFragment(op.a.s))

EncodeNext ==
    \/ encodePathCall
    \/ encodeQueryCall
    \/ encodeFragmentCall

EncodeSpec == EncodeInit /\ [][EncodeNext]_vars

\* C22: percent-encoding is idempotent: encoding the result of encodePath,
\* encodeQuery or encodeFragment again gives the same string, so an escape
\* already in the input is not escaped twice, and the constructor stores an
\* encoded value as it is.
C22_EncodeIdempotent ==
    /\ (op.name = "encodePath" /\ ~op.threw) =>
          /\ encodePath(op.b.s) = [ok |-> TRUE, s |-> op.b.s]
          /\ op.b.s # <<>> =>
                UrlConstructor(Null, Null, Null, Null, Null, op.b, Null, Null).url.path = op.b
    /\ (op.name = "encodeQuery" /\ ~op.threw) =>
          /\ encodeQuery(op.b.s) = [ok |-> TRUE, s |-> op.b.s]
          /\ op.b.s # <<>> =>
                UrlConstructor(Null, Null, Null, Null, Null, Null, op.b, Null).url.query = op.b
    /\ (op.name = "encodeFragment" /\ ~op.threw) =>
          /\ encodeFragment(op.b.s) = [ok |-> TRUE, s |-> op.b.s]
          /\ op.b.s # <<>> =>
                UrlConstructor(Null, Null, Null, Null, Null, Null, Null, op.b).url.fragment = op.b

\* encodePath was given "%2F" and returned "%2F".
C22_Witness ==
    /\ op.name = "encodePath"
    /\ op.a = Str(<<37, 50, 70>>)
    /\ op.b = Str(<<37, 50, 70>>)

\* ------------------------------------------------------------- responses
\* Status codes the callers pass, one of them not a status code of HTTP.
AnyStatusArgs == StatusArgs \cup {600}

\* Reason phrases the callers pass, the empty string among them.
AnyPhraseArgs == PhraseArgs \cup {Str(<<>>)}

NewResponseAnyCode == NewResponseOf(AnyStatusArgs, AnyPhraseArgs)
withAnyStatus == withStatusOf(AnyStatusArgs, AnyPhraseArgs)

\* Responses and the calls on them.
ResponseNext ==
    \/ NewResponseAnyCode
    \/ withAnyStatus
    \/ withProtocolVersion
    \/ withBody

ResponseSpec == Init /\ [][ResponseNext]_vars

\* C23: an explicitly empty reason phrase is not replaced by the previous
\* one: r.withStatus(c, "") on a Response with the explicit phrase P returns
\* a Response whose explicit phrase is not P and whose reasonPhrase is the
\* table's phrase for c or empty; r.withStatus(c) carries P over.
C23_EmptyPhraseGiven ==
    (op.name = "withStatus" /\ Truthy(msgs[op.recv].reasonPhrase)) =>
        /\ op.a = Str(<<>>) =>
              /\ msgs[op.res].reasonPhrase # msgs[op.recv].reasonPhrase
              /\ getReasonPhrase(msgs[op.res])
                    \in {reasonPhrases(op.b.n), Str(<<>>), Undefined}
        /\ op.a = Undefined => getReasonPhrase(msgs[op.res]) = msgs[op.recv].reasonPhrase

C25_WithStatusSame ==
    (/\ op.name = "withStatus"
     /\ op.b = Num(msgs[op.recv].statusCode)
     /\ op.a \in {Undefined, getReasonPhrase(msgs[op.recv])})
    => op.res = op.recv

\* C26: status codes are validated: every Response has a status code in
\* 100..599, and a construction or withStatus call with a code outside that
\* range throws.
C26_StatusValidated ==
    /\ \A i \in DOMAIN msgs :
          msgs[i].kind = "Response" => msgs[i].statusCode \in 100..599
    /\ (op.name \in {"new Response", "withStatus"} /\ op.b.n \notin 100..599) => op.threw

\* ------------------------------------------------------------ UrlFactory
\* The first position in s of a character of the set cs, or 0.
IndexOf(s, cs) ==
    IF \E i \in DOMAIN s : s[i] \in cs
    THEN CHOOSE i \in DOMAIN s : s[i] \in cs /\ \A j \in 1..(i - 1) : s[j] \notin cs
    ELSE 0

\* s up to, and without, position i; s from position i on.  Position 0 is
\* "not found": everything is before it.
Before(s, i) == IF i = 0 THEN s ELSE SubSeq(s, 1, i - 1)
From(s, i) == IF i = 0 THEN <<>> ELSE SubSeq(s, i, Len(s))

\* parseInt on a string of decimal digits: NaN (no number) for "".
RECURSIVE parseInt(_)
parseInt(s) ==
    IF s = <<>> THEN Undefined
    ELSE IF Len(s) = 1 THEN Num(s[1] - 48)
    ELSE Num(10 * parseInt(SubSeq(s, 1, Len(s) - 1)).n + (s[Len(s)] - 48))

\* new URL(s) of Node's "url" module, for s = scheme "://" authority ...
\* with an "http" or "https" scheme: the components as the WHATWG parser
\* gives them (protocol with its ":", host with the port unless it is the
\* scheme's default, pathname "/" for an empty path, search and hash with
\* their "?" and "#").
URL(s) ==
    LET colon == IndexOf(s, {58})
        protocol == SubSeq(s, 1, colon)
        rest == SubSeq(s, colon + 3, Len(s))
        authority == Before(rest, IndexOf(rest, {47, 63, 35}))
        tail == From(rest, IndexOf(rest, {47, 63, 35}))
        at == IndexOf(authority, {64})
        userInfo == IF at = 0 THEN <<>> ELSE Before(authority, at)
        hostPort == IF at = 0 THEN authority ELSE SubSeq(authority, at + 1, Len(authority))
        username == Before(userInfo, IndexOf(userInfo, {58}))
        password == Tail(From(userInfo \o <<58>>, IndexOf(userInfo \o <<58>>, {58})))
        hostname == toLowerCase(Before(hostPort, IndexOf(hostPort, {58})))
        givenPort == IF IndexOf(hostPort, {58}) = 0 THEN <<>>
                     ELSE Tail(From(hostPort, IndexOf(hostPort, {58})))
        default == IF protocol = <<104, 116, 116, 112, 58>> THEN <<56, 48>>
                   ELSE <<52, 52, 51>>
        port == IF givenPort = default THEN <<>> ELSE givenPort
        hash == From(tail, IndexOf(tail, {35}))
        beforeHash == Before(tail, IndexOf(tail, {35}))
        search == From(beforeHash, IndexOf(beforeHash, {63}))
        pathname == Before(beforeHash, IndexOf(beforeHash, {63}))
    IN  [protocol |-> protocol, username |-> username,
         password |-> IF password = <<>> THEN <<>> ELSE SubSeq(password, 1, Len(password) - 1),
         hostname |-> hostname,
         host |-> IF port = <<>> THEN hostname ELSE hostname \o <<58>> \o port,
         port |-> port,
         pathname |-> IF pathname = <<>> THEN <<47>> ELSE pathname,
         search |-> IF search = <<63>> THEN <<>> ELSE search,
         hash |-> IF hash = <<35>> THEN <<>> ELSE hash]

\* s.replace(/^c/, ""), and s.replace(/c$/, "")
StripFirst(s, c) == IF s # <<>> /\ s[1] = c THEN Tail(s) ELSE s
StripLast(s, c) == IF s # <<>> /\ s[Len(s)] = c THEN SubSeq(s, 1, Len(s) - 1) ELSE s

\* UrlFactory.createUrl(urlString)
UrlFactory_createUrl(urlString) ==
    LET url == URL(urlString)
    IN  UrlConstructor(Str(StripLast(url.protocol, 58)), Str(url.username), Str(url.password),
                       Str(url.host), OrElse(parseInt(url.port), Null),
                       Str(StripFirst(url.pathname, 47)), Str(StripFirst(url.search, 63)),
                       Str(StripFirst(url.hash, 35)))

\* The URL strings given to the factory.
UrlStrings ==
    {scheme \o <<58, 47, 47>> \o userInfo \o <<69, 46, 99>> \o port \o path \o query \o hash :
        scheme \in {<<104, 116, 116, 112>>, <<104, 116, 116, 112, 115>>},    \* http, https
        userInfo \in {<<>>, <<117, 58, 119, 64>>},                          \* "", "u:w@"
        port \in {<<>>, <<58, 56, 48>>, <<58, 56, 48, 56, 48>>},            \* "", ":80", ":8080"
        path \in {<<>>, <<47, 112>>},                                       \* "", "/p"
        query \in {<<>>, <<63, 107, 61, 118>>},                             \* "", "?k=v"
        hash \in {<<>>, <<35, 102>>}}                                       \* "", "#f"

FactoryInit ==
    /\ urls = <<>>
    /\ hcs = <<>>
    /\ msgs = <<>>
    /\ streams = <<>>
    /\ op \in {[NoOp EXCEPT !.name = "input", !.a = Str(s)] : s \in UrlStrings}

createUrl ==
    /\ op.name = "input"
    /\ urls' = <<UrlFactory_createUrl(op.a.s).url>>
    /\ op' = [op EXCEPT !.name = "createUrl", !.res = 1]
    /\ UNCHANGED <<hcs, msgs, streams>>

FactoryNext == createUrl

FactorySpec == FactoryInit /\ [][FactoryNext]_vars

\* C27: createUrl splits host and port: the Url made from a URL string has
\* the host name alone as getHost() and the port as getPort() (null for the
\* scheme's default), and its toString() is the normalized string, with the
\* port in it once.
C27_HostAndPortSplit ==
    op.name = "createUrl" =>
        LET url == URL(op.a.s)
            u == urls[op.res]
        IN  /\ getHost(u) = url.hostname
            /\ getPort(u) = OrElse(parseInt(url.port), Null)
            /\ toString(u) =
                  url.protocol \o <<47, 47>>
                  \o (IF url.username = <<>> THEN <<>>
                      ELSE url.username \o <<58>> \o url.password \o <<64>>)
                  \o url.hostname
                  \o (IF url.port = <<>> THEN <<>> ELSE <<58>> \o url.port)
                  \o (IF url.pathname = <<47>> THEN <<>> ELSE url.pathname)
                  \o url.search \o url.hash

\* ------------------------------------------- a HeaderCollection by itself
\* The longest list of values a header is given by add.
MaxValues == 2

sHOST == <<72, 79, 83, 84>>           \* "HOST"

\* Initial mappings a collection is constructed from; the last one has two
\* names that differ in letter case only.
InitialMappings ==
    {<<>>,
     <<[name |-> sHost, values |-> <<sExampleCom>>]>>,
     <<[name |-> sXTest, values |-> <<sOtherCom>>], [name |-> shost, values |-> <<sExampleCom>>]>>,
     <<[name |-> sHost, values |-> <<sExampleCom>>], [name |-> shost, values |-> <<sOtherCom>>]>>}

\* Header names the callers pass.
CollectionNameArgs == {sHost, shost, sHOST, sXTest}

CollectionInit ==
    /\ urls = <<>>
    /\ msgs = <<>>
    /\ streams = <<>>
    /\ hcs \in {<<HeaderCollection(entries)>> : entries \in InitialMappings}
    /\ op = NoOp

\* hcs[1].set(name, value)
setCall ==
    \E name \in CollectionNameArgs, value \in HeaderValueArgs :
        /\ hcs' = <<set(hcs[1], name, value)>>
        /\ op' = [NoOp EXCEPT !.name = "set", !.recv = 1, !.hname = name, !.hval = value]
        /\ UNCHANGED <<urls, msgs, streams>>

\* hcs[1].add(name, value)
addCall ==
    \E name \in CollectionNameArgs, value \in HeaderValueArgs :
        /\ Len(get(hcs[1], name)) + Len(value.items) <= MaxValues
        /\ hcs' = <<add(hcs[1], name, value)>>
        /\ op' = [NoOp EXCEPT !.name = "add", !.recv = 1, !.hname = name, !.hval = value]
        /\ UNCHANGED <<urls, msgs, streams>>

\* hcs[1].remove(name)
removeCall ==
    \E name \in CollectionNameArgs :
        /\ hcs' = <<remove(hcs[1], name)>>
        /\ op' = [NoOp EXCEPT !.name = "remove", !.recv = 1, !.hname = name]
        /\ UNCHANGED <<urls, msgs, streams>>

CollectionNext == setCall \/ addCall \/ removeCall

CollectionSpec == CollectionInit /\ [][CollectionNext]_vars

\* C28: a HeaderCollection keeps one entry per case-insensitive name: in
\* every state reached from any initial mapping by set, add and remove, no
\* two stored names are equal ignoring case, and has(n) and get(n) give the
\* same answer for every letter-case variant of n.
C28_OneEntryPerName ==
    /\ \A i, j \in DOMAIN hcs[1] :
          toLowerCase(hcs[1][i].name) = toLowerCase(hcs[1][j].name) => i = j
    /\ \A n, v \in CollectionNameArgs :
          toLowerCase(n) = toLowerCase(v) =>
              /\ has(hcs[1], n) = has(hcs[1], v)
              /\ get(hcs[1], n) = get(hcs[1], v)

\* ------------------------------------------------------------ StringStream
MaxChunk == 1       \* longest initial content, and longest string written in one call
MaxWrites == 2      \* writes to one stream
MaxSize == 2        \* largest size asked of _read

\* Characters of the contents: "c" and "e" with an acute accent, which
\* UTF-8 encodes in two bytes.
StreamChars == {99, 233}

\* Buffer.from(s, "utf8"), for characters below U+0800: what Writable.write
\* makes of a string before it calls _write.
RECURSIVE BufferFrom(_)
BufferFrom(s) ==
    IF s = <<>> THEN <<>>
    ELSE (IF s[1] < 128 THEN <<s[1]>>
          ELSE <<192 + (s[1] \div 64), 128 + (s[1] % 64)>>) \o BufferFrom(Tail(s))

\* buffer.toString(): UTF-8 decoding, U+FFFD for a byte that starts or
\* continues no character.
RECURSIVE BufferToString(_)
BufferToString(bytes) ==
    IF bytes = <<>> THEN <<>>
    ELSE IF bytes[1] < 128 THEN <<bytes[1]>> \o BufferToString(Tail(bytes))
    ELSE IF /\ bytes[1] \in 194..223
            /\ Len(bytes) >= 2
            /\ bytes[2] \in 128..191
    THEN <<(bytes[1] - 192) * 64 + (bytes[2] - 128)>> \o BufferToString(Tail(Tail(bytes)))
    ELSE <<65533>> \o BufferToString(Tail(bytes))

\* String.prototype.slice(start, end) and slice(start), for indices >= 0.
slice(s, start, end) ==
    LET to == IF end < Len(s) THEN end ELSE Len(s)
    IN  IF start >= to THEN <<>> ELSE SubSeq(s, start + 1, to)

sliceFrom(s, start) == slice(s, start, Len(s))

\* new StringStream(content): the content, and the Readable side's queue of
\* pushed chunks, Null for the end of the stream.  initial and written record
\* what went in.
StringStream(content) ==
    [content |-> content, pushed |-> <<>>, ended |-> FALSE,
     initial |-> content, written |-> <<>>]

\* this.push(chunk)
push(s, chunk) ==
    [s EXCEPT !.pushed = Append(@, chunk), !.ended = (chunk = Null)]

\* A _read that leaves what it pushed in the content.
StringStream_readKeeping(s, size) ==
    IF Len(s.content) = 0 THEN push(s, Null)
    ELSE push(s, Str(slice(s.content, 0, size)))

\* _read(size)
StringStream_read(s, size) ==
    IF Len(s.content) = 0 THEN push(s, Null)
    ELSE [push(s, Str(slice(s.content, 0, size))) EXCEPT !.content = sliceFrom(s.content, size)]

\* _write(chunk, encoding, callback)
StringStream_write(s, chunk) ==
    [s EXCEPT !.content = @ \o BufferToString(chunk)]

StreamInit ==
    /\ urls = <<>>
    /\ hcs = <<>>
    /\ msgs = <<>>
    /\ streams \in {<<StringStream(content)>> : content \in StringsUpTo(StreamChars, MaxChunk)}
    /\ op = NoOp

\* The Readable side asks for size characters; it asks no more once the end
\* of the stream was pushed.
readCall ==
    \E size \in 1..MaxSize :
        /\ ~streams[1].ended
        /\ streams' = <<StringStream_read(streams[1], size)>>
        /\ op' = [NoOp EXCEPT !.name = "_read", !.recv = 1, !.a = Num(size),
                              !.b = streams'[1].pushed[Len(streams'[1].pushed)],
                              !.pre = streams[1].content]
        /\ UNCHANGED <<urls, hcs, msgs>>

\* stream.write(string): the Writable side hands _write the string's bytes.
writeCall ==
    \E string \in StringsUpTo(StreamChars, MaxChunk) :
        /\ Len(streams[1].written) < MaxWrites
        /\ streams' = <<[StringStream_write(streams[1], BufferFrom(string))
                            EXCEPT !.written = Append(@, string)]>>
        /\ op' = [NoOp EXCEPT !.name = "_write", !.recv = 1, !.a = Str(string),
                              !.pre = streams[1].content]
        /\ UNCHANGED <<urls, hcs, msgs>>

StreamNext == readCall \/ writeCall

StreamSpec == StreamInit /\ [][StreamNext]_vars

\* The strings of a list, one after the other; Null counts for nothing.
RECURSIVE Flat(_)
Flat(list) ==
    IF list = <<>> THEN <<>>
    ELSE (IF list[1] = Null THEN <<>> ELSE list[1].s) \o Flat(Tail(list))

\* C30: a StringStream delivers its content in order under any interleaving
\* of reads and writes: each chunk pushed by _read(size) has at most size
\* characters, the pushed chunks one after the other are a prefix of the
\* initial content followed by the written chunks in write order, the rest
\* of which is the content still held, and a _read that finds the content
\* empty pushes the end of the stream.
C30_StreamFifo ==
    LET s == streams[1]
        in == s.initial \o Flat([i \in DOMAIN s.written |-> Str(s.written[i])])
        out == Flat(s.pushed)
    IN  /\ Len(out) <= Len(in)
        /\ out = SubSeq(in, 1, Len(out))
        /\ s.content = SubSeq(in, Len(out) + 1, Len(in))
        /\ op.name = "_read" =>
              IF op.pre = <<>> THEN op.b = Null /\ s.ended
              ELSE /\ op.b # Null
                   /\ Len(op.b.s) \in 1..op.a.n
                   /\ ~s.ended

\* A read has pushed characters that were written after an earlier read
\* pushed characters of the initial content.
C30_Witness ==
    /\ op.name = "_read"
    /\ op.b # Null
    /\ streams[1].initial # <<>>
    /\ streams[1].written # <<>>
    /\ Len(streams[1].pushed) >= 2
    /\ Len(Flat(streams[1].pushed)) > Len(streams[1].initial)
    /\ 233 \in {op.b.s[i] : i \in DOMAIN op.b.s}

====
